---- MODULE Spec2Model ----
(***************************************************************************)
(* Roamio: a Streamlit travel-itinerary assistant (src/Roamio.py, and its  *)
(* near-duplicate src/app.py).  The model covers                           *)
(*   - the Trip Store (saved_trips.json): ensure / load / save_trip,       *)
(*   - the Itinerary Generator wrapper around the Gemini backend,          *)
(*   - the Place Lookup wrappers around the places-search backend,         *)
(*   - the Location Extractor (a regular-expression search per line),      *)
(*   - the plan page of the UI: one script rerun per user interaction.     *)
(* Text is modelled as sequences of one-character strings, so that the     *)
(* regular expression, str.strip and str.replace are computed character    *)
(* by character.  An optional value (Python None) is a sequence of length  *)
(* 0 or 1.                                                                 *)
(***************************************************************************)
EXTENDS Integers, Sequences, FiniteSets, TLC

(***************************************************************************)
(* Bounds of the model.                                                    *)
(***************************************************************************)
\* number of Generate actions in one behaviour of the UI
MaxGenerations == 2
\* number of records the UI appends to the store in one behaviour
MaxSaves == 1
\* number of save_trip calls per behaviour of the two-caller model
MaxCalls == 3
\* number of tokens of a generated itinerary text in the pipeline model
MaxTokens == 3
\* number of entries in a backend response
MaxEntries == 2
\* the largest count fetch_places_google is called with besides the plan page's
MaxCount == 3
\* the largest price level the backend answers with
MaxPrice == 5
\* the largest number of days a prompt is built for
MaxDays == 12
\* the largest number of interests a prompt is built for
MaxInterests == 2

(***************************************************************************)
(* Optional values and sequences.                                          *)
(***************************************************************************)
None == <<>>
Some(x) == <<x>>
IsNone(o) == Len(o) = 0

Range(s) == {s[i] : i \in 1..Len(s)}

NoDuplicates(s) == \A i, j \in 1..Len(s) : i # j => s[i] # s[j]

\* All enumerations of the sequence s in some order (each index used once).
Permutations_(s) ==
  {[i \in 1..Len(s) |-> s[f[i]]] :
     f \in {g \in [1..Len(s) -> 1..Len(s)] : \A a, b \in 1..Len(s) : a # b => g[a] # g[b]}}

RECURSIVE Concat(_)
Concat(ss) == IF Len(ss) = 0 THEN <<>> ELSE Head(ss) \o Concat(Tail(ss))

StartsWith(s, prefix) ==
  /\ Len(prefix) <= Len(s)
  /\ \A i \in 1..Len(prefix) : s[i] = prefix[i]

(***************************************************************************)
(* Characters.                                                             *)
(***************************************************************************)
UpperCase == {"A","B","C","D","E","F","G","H","I","J","K","L","M",
              "N","O","P","Q","R","S","T","U","V","W","X","Y","Z"}
LowerCase == {"a","b","c","d","e","f","g","h","i","j","k","l","m",
              "n","o","p","q","r","s","t","u","v","w","x","y","z"}
Digits == {"0","1","2","3","4","5","6","7","8","9"}

\* \s of the regular expression and the characters str.strip removes
Whitespace == {" ", "\t", "\n", "\r", "\f"}

\* the character class [A-Za-z0-9 ,'-]
AllowedCharsWithDot == UpperCase \cup LowerCase \cup Digits \cup {" ", ",", "'", "-", "."}
AllowedChars == UpperCase \cup LowerCase \cup Digits \cup {" ", ",", "'", "-"}

\* the alternation (Visit|Stay at|Hotel|Restaurant|Explore|Check-in at), in order
T_Visit == <<"V", "i", "s", "i", "t">>
T_StayAt == <<"S", "t", "a", "y", " ", "a", "t">>
T_Hotel == <<"H", "o", "t", "e", "l">>
T_Restaurant == <<"R", "e", "s", "t", "a", "u", "r", "a", "n", "t">>
T_Explore == <<"E", "x", "p", "l", "o", "r", "e">>
T_CheckInAt == <<"C", "h", "e", "c", "k", "-", "i", "n", " ", "a", "t">>
Triggers == <<T_Visit, T_StayAt, T_Hotel, T_Restaurant, T_Explore, T_CheckInAt>>

(***************************************************************************)
(* str.strip, str.split('\n'), str.replace(' ', '+').                      *)
(***************************************************************************)
RECURSIVE LStrip(_)
LStrip(s) == IF Len(s) > 0 /\ Head(s) \in Whitespace THEN LStrip(Tail(s)) ELSE s

RECURSIVE RStrip(_)
RStrip(s) ==
  IF Len(s) > 0 /\ s[Len(s)] \in Whitespace THEN RStrip(SubSeq(s, 1, Len(s) - 1)) ELSE s

Strip(s) == RStrip(LStrip(s))

\* The lines of text: the pieces between the newline characters, empty pieces kept.
RECURSIVE SplitAcc(_, _, _)
SplitAcc(text, i, cur) ==
  IF i > Len(text) THEN <<cur>>
  ELSE IF text[i] = "\n" THEN <<cur>> \o SplitAcc(text, i + 1, <<>>)
  ELSE SplitAcc(text, i + 1, Append(cur, text[i]))

SplitLines(text) == SplitAcc(text, 1, <<>>)

ReplaceSpaces(s) == [i \in 1..Len(s) |-> IF s[i] = " " THEN "+" ELSE s[i]]

(***************************************************************************)
(* re.search(r"(Visit|...)\s+([A-Za-z0-9 ,'-]+)", line): the leftmost      *)
(* position where the pattern matches, the alternatives tried in order,    *)
(* \s+ and the class greedy with backtracking.  The result is group 2, as  *)
(* an optional value.                                                      *)
(***************************************************************************)
HasAt(line, p, w) ==
  /\ p + Len(w) - 1 <= Len(line)
  /\ \A i \in 1..Len(w) : line[p + i - 1] = w[i]

\* the first index >= p whose character is not in S (Len(line) + 1 if none)
RECURSIVE RunEnd(_, _, _)
RunEnd(line, p, S) ==
  IF p <= Len(line) /\ line[p] \in S THEN RunEnd(line, p + 1, S) ELSE p

\* \s+ has matched line[e..k-1]; the class must match from k.  On failure \s+
\* gives back one character.
RECURSIVE Backtrack(_, _, _)
Backtrack(line, e, k) ==
  IF k <= e THEN None
  ELSE IF k <= Len(line) /\ line[k] \in AllowedChars
       THEN Some(SubSeq(line, k, RunEnd(line, k, AllowedChars) - 1))
       ELSE Backtrack(line, e, k - 1)

TryTrigger(line, p, t) ==
  IF HasAt(line, p, t)
  THEN Backtrack(line, p + Len(t), RunEnd(line, p + Len(t), Whitespace \ {"\n"}))
  ELSE None

RECURSIVE MatchAt(_, _, _)
MatchAt(line, p, a) ==
  IF a > Len(Triggers) THEN None
  ELSE LET m == TryTrigger(line, p, Triggers[a])
       IN IF IsNone(m) THEN MatchAt(line, p, a + 1) ELSE m

RECURSIVE SearchFrom(_, _)
SearchFrom(line, p) ==
  IF p > Len(line) THEN None
  ELSE LET m == MatchAt(line, p, 1)
       IN IF IsNone(m) THEN SearchFrom(line, p + 1) ELSE m

re_search(line) == SearchFrom(line, 1)

(***************************************************************************)
(* extract_locations_from_itinerary.  The Python set is kept as a list     *)
(* without repetitions (set.add); list(locations) enumerates it in an      *)
(* order the language does not fix, which the callers choose with          *)
(* Permutations_.                                                          *)
(***************************************************************************)
SetAddNoCheck(acc, x) == Append(acc, x)
SetAdd(acc, x) == IF x \in Range(acc) THEN acc ELSE Append(acc, x)

\* what one line adds to the set: the stripped group 2 if longer than 2
LineCandidate(line) ==
  LET m == re_search(line)
  IN IF IsNone(m) THEN None
     ELSE LET loc == Strip(m[1])
          IN IF Len(loc) > 2 THEN Some(loc) ELSE None

RECURSIVE ExtractLoop(_, _)
ExtractLoop(lines, acc) ==
  IF Len(lines) = 0 THEN acc
  ELSE LET c == LineCandidate(Head(lines))
       IN ExtractLoop(Tail(lines), IF IsNone(c) THEN acc ELSE SetAdd(acc, c[1]))

extract_locations_from_itinerary(itinerary_text) ==
  ExtractLoop(SplitLines(itinerary_text), <<>>)

(***************************************************************************)
(* Trip Store: the file saved_trips.json.  The file is missing, holds a    *)
(* JSON array (content: one set of key/value members per object), or holds *)
(* text json.load cannot parse (empty, cut short, or not an array).        *)
(* Every I/O step may fail; fault names the step of the call that fails.   *)
(***************************************************************************)
Faults == {"none", "ensure_open", "ensure_dump", "read", "write_open", "write_dump"}

ObjToJson(d) == {<<k, d[k]>> : k \in DOMAIN d}
JsonToObj(m) == [k \in {q[1] : q \in m} |-> (CHOOSE q \in m : q[1] = k)[2]]

json_dump(trips) == [i \in 1..Len(trips) |-> ObjToJson(trips[i])]
json_load(content) == [i \in 1..Len(content) |-> JsonToObj(content[i])]

MissingFile == [kind |-> "missing", content |-> <<>>]
JsonFile(trips) == [kind |-> "json", content |-> json_dump(trips)]
\* what open(TRIPS_FILE, "w") leaves before json.dump has written the array
TruncatedFile == [kind |-> "garbage", content |-> <<>>]

\* open(TRIPS_FILE, "w") truncates the file; json.dump then writes the array
open_w(f, fails) ==
  IF fails THEN [file |-> f, raised |-> TRUE]
  ELSE [file |-> TruncatedFile, raised |-> FALSE]

dump(f, trips, fails) ==
  IF fails THEN [file |-> f, raised |-> TRUE]
  ELSE [file |-> JsonFile(trips), raised |-> FALSE]

write_file(f, trips, open_fails, dump_fails) ==
  LET o == open_w(f, open_fails)
  IN IF o.raised THEN o ELSE dump(o.file, trips, dump_fails)

ensure_saved_trips_file_nocreate(f, fault) == [file |-> f, raised |-> FALSE]
ensure_saved_trips_file(f, fault) ==
  IF f.kind = "missing"
  THEN write_file(f, <<>>, fault = "ensure_open", fault = "ensure_dump")
  ELSE [file |-> f, raised |-> FALSE]

\* with open(TRIPS_FILE, "r") as f: return json.load(f)
read_file(f, fault) ==
  IF fault = "read" \/ f.kind # "json"
  THEN [file |-> f, raised |-> TRUE, value |-> <<>>]
  ELSE [file |-> f, raised |-> FALSE, value |-> json_load(f.content)]

load_saved_trips(f, fault) ==
  LET e == ensure_saved_trips_file(f, fault)
  IN IF e.raised THEN [file |-> e.file, raised |-> TRUE, value |-> <<>>]
     ELSE read_file(e.file, fault)

\* trips.append(trip)
trips_prepend(trips, trip) == <<trip>> \o trips
trips_append(trips, trip) == Append(trips, trip)

save_trip_overwrite(f, trip, fault) ==
  LET l == load_saved_trips(f, fault)
  IN IF l.raised THEN [file |-> l.file, raised |-> TRUE]
     ELSE write_file(l.file, <<trip>>, fault = "write_open", fault = "write_dump")

save_trip(f, trip, fault) ==
  LET l == load_saved_trips(f, fault)
  IN IF l.raised THEN [file |-> l.file, raised |-> TRUE]
     ELSE write_file(l.file, trips_append(l.value, trip),
                     fault = "write_open", fault = "write_dump")

(***************************************************************************)
(* Itinerary Generator.  The backend either answers with a text or fails;  *)
(* a malformed answer makes response.text raise inside the try block.      *)
(***************************************************************************)
ERR_NO_KEY == <<"E", "R", "R", "O", "R", ":", " ", "G", "O", "O", "G", "L", "E", "_", "A", "P", "I", "_", "K", "E", "Y", " ", "n", "o", "t", " ", "s", "e", "t", ".">>
GEMINI_ERROR_PREFIX == <<"G", "e", "m", "i", "n", "i", " ", "e", "r", "r", "o", "r", ":", " ">>

generate_itinerary_gemini_uncaught(model_set, outcome) ==
  IF ~model_set THEN [raised |-> FALSE, text |-> ERR_NO_KEY, calls |-> 0]
  ELSE IF outcome.kind = "ok"
       THEN [raised |-> FALSE, text |-> Strip(outcome.text), calls |-> 1]
       ELSE IF outcome.kind = "malformed"
            THEN [raised |-> TRUE, text |-> <<>>, calls |-> 1]
            ELSE [raised |-> FALSE, text |-> GEMINI_ERROR_PREFIX \o outcome.text,
                  calls |-> 1]

\* outcome: what GEMINI_MODEL.generate_content(prompt) does, if it is called
generate_itinerary_gemini(model_set, outcome) ==
  IF ~model_set THEN [raised |-> FALSE, text |-> ERR_NO_KEY, calls |-> 0]
  ELSE IF outcome.kind = "ok"
       THEN [raised |-> FALSE, text |-> Strip(outcome.text), calls |-> 1]
       ELSE [raised |-> FALSE, text |-> GEMINI_ERROR_PREFIX \o outcome.text,
             calls |-> 1]

(***************************************************************************)
(* Place Lookup.  A backend entry is a dictionary: a function from the     *)
(* keys it has.  A response is a network error, a non-success status, a    *)
(* body that is not JSON, or a JSON object with its "results".             *)
(***************************************************************************)
Get(d, k) == IF k \in DOMAIN d THEN Some(d[k]) ELSE None
GetOr(d, k, default) == IF k \in DOMAIN d THEN d[k] ELSE default

\* photo_url of an entry: from the first photo's reference, if there is a photo
PhotoUrl(item, key) ==
  IF "photos" \in DOMAIN item /\ Len(item["photos"]) > 0
  THEN Some([photoreference |-> Get(item["photos"][1], "photo_reference"), key |-> key])
  ELSE None

\* item.get('name').replace(' ', '+'): raises when the entry has no name
MapsUrl(item) ==
  IF "name" \in DOMAIN item
  THEN [raised |-> FALSE,
        value |-> [query |-> ReplaceSpaces(item["name"]),
                   query_place_id |-> GetOr(item, "place_id", <<>>)]]
  ELSE [raised |-> TRUE, value |-> [query |-> <<>>, query_place_id |-> <<>>]]

PlaceRecord(item, key) ==
  [name |-> Get(item, "name"),
   address |-> Get(item, "formatted_address"),
   rating |-> Get(item, "rating"),
   photo |-> PhotoUrl(item, key),
   maps_url |-> MapsUrl(item).value]

\* the loop over data.get("results", [])[:count]
RECURSIVE MapEntries(_, _, _)
MapEntries(items, key, acc) ==
  IF Len(items) = 0 THEN [raised |-> FALSE, value |-> acc]
  ELSE IF MapsUrl(Head(items)).raised THEN [raised |-> TRUE, value |-> <<>>]
  ELSE MapEntries(Tail(items), key, Append(acc, PlaceRecord(Head(items), key)))

PrefixAll(s, count) == s
Prefix(s, count) == SubSeq(s, 1, IF count < Len(s) THEN count ELSE Len(s))

\* the body of the try block of fetch_places_google
places_try(outcome, key, count) ==
  IF outcome.kind # "ok" THEN [raised |-> TRUE, value |-> <<>>]
  ELSE MapEntries(Prefix(outcome.results, count), key, <<>>)

fetch_places_google_uncaught(key_set, outcome, count) ==
  IF ~key_set THEN [raised |-> FALSE, value |-> <<>>, warned |-> FALSE]
  ELSE LET t == places_try(outcome, "GOOGLE_MAPS_API_KEY", count)
       IN [raised |-> t.raised, value |-> t.value, warned |-> FALSE]

fetch_places_google(key_set, outcome, count) ==
  IF ~key_set THEN [raised |-> FALSE, value |-> <<>>, warned |-> FALSE]
  ELSE LET t == places_try(outcome, "GOOGLE_MAPS_API_KEY", count)
       IN IF t.raised THEN [raised |-> FALSE, value |-> <<>>, warned |-> TRUE]
          ELSE [raised |-> FALSE, value |-> t.value, warned |-> FALSE]

PriceDescFromZero(price_level) ==
  IF price_level = Some(0) THEN "Budget"
  ELSE IF price_level = Some(1) THEN "Moderate"
  ELSE IF price_level = Some(2) THEN "Expensive"
  ELSE IF price_level = Some(3) THEN "Luxury"
  ELSE ""

PriceDesc(price_level) ==
  IF price_level = Some(1) THEN "Budget"
  ELSE IF price_level = Some(2) THEN "Moderate"
  ELSE IF price_level = Some(3) THEN "Expensive"
  ELSE IF price_level = Some(4) THEN "Luxury"
  ELSE ""

\* the body of the try block of fetch_place_details
details_try(outcome) ==
  IF outcome.kind # "ok" THEN [raised |-> TRUE, value |-> None]
  ELSE IF Len(outcome.results) = 0 THEN [raised |-> FALSE, value |-> None]
  ELSE LET item == outcome.results[1]
       IN IF MapsUrl(item).raised THEN [raised |-> TRUE, value |-> None]
          ELSE [raised |-> FALSE,
                value |-> Some(PlaceRecord(item, "GOOGLE_API_KEY") @@
                               [description |-> GetOr(item, "types", <<>>),
                                price |-> PriceDesc(Get(item, "price_level"))])]

fetch_place_details(outcome) ==
  LET t == details_try(outcome)
  IN IF t.raised THEN [raised |-> FALSE, value |-> None, warned |-> TRUE]
     ELSE [raised |-> FALSE, value |-> t.value, warned |-> FALSE]

(***************************************************************************)
(* State.                                                                  *)
(***************************************************************************)
VARIABLES
  file,          \* saved_trips.json
  ret,           \* the last Trip Store call: its operation, argument, fault and result
  saved,         \* history: the records whose save_trip returned normally, in order
  ncalls,        \* history: the number of save_trip calls made
  pc,            \* two callers: the statement of save_trip each caller is at
  local,         \* two callers: the caller's local list trips
  arg,           \* two callers: the caller's argument trip
  stale,         \* two callers: another caller's save has written since this one loaded
  clean,         \* two callers: no other caller has written since this one opened the file
  raced,         \* two callers: a save_trip began while another was in progress
  api_key_set,   \* configuration: GOOGLE_API_KEY is set (so GEMINI_MODEL is not None)
  maps_key_set,  \* configuration: GOOGLE_MAPS_API_KEY of fetch_places_google is set
  session_state, \* st.session_state: a dictionary
  form,          \* the values of the plan page's input widgets
  view,          \* what the last rerun rendered: the page, and whether the Save button
  clock,         \* history: the number of Generate actions; time.time() of the last
  gen,           \* history: the generation calls and the last one's outcome and result
  extract_input, \* the text the last rerun passed to the extractor, if it called it
  loc_details,   \* the list loc_details of the last rerun
  text,          \* pipeline: the itinerary text
  stage,         \* pipeline: the statement the pipeline is at
  places,        \* pipeline: the result of fetch_places_google
  locations,     \* pipeline: the list extract_locations_from_itinerary returned
  lookups,       \* pipeline: the names passed to fetch_place_details so far
  call,          \* pipeline: the last Place Lookup call, its backend response and result
  prompt         \* the last build_itinerary_prompt call: its arguments and its result

storeVars == <<file, ret, saved, ncalls>>
concVars == <<pc, local, arg, stale, clean, raced>>
configVars == <<api_key_set, maps_key_set>>
uiVars == <<session_state, form, view, clock, gen, extract_input>>
pipeVars == <<text, stage, places, locations, lookups, call>>
vars == <<file, ret, saved, ncalls, pc, local, arg, stale, clean, raced,
          api_key_set, maps_key_set, session_state, form, view, clock, gen,
          extract_input, loc_details, text, stage, places, locations, lookups, call,
          prompt>>

(***************************************************************************)
(* Trip records: the dictionary the plan page stores as latest_itinerary   *)
(* and passes to save_trip.                                                *)
(***************************************************************************)
TXT_Two == <<"V", "i", "s", "i", "t", " ", "G", "o", "a", "\n", "S", "t", "a", "y", " ", "a", "t", " ", "T", "a", "j">>

Dests == {"Jammu, India", "Goa"}

Itinerary(from, dest, days, budget, pax, interests, now, ai_text) ==
  [from |-> from, destination |-> dest, days |-> days, budget |-> budget,
   pax |-> pax, interests |-> interests, generated_at |-> now,
   itinerary_text |-> ai_text]

SampleTrip(dest, now) ==
  Itinerary("Hyderabad, India", dest, 5, "Economy", "Solo",
            <<"Sightseeing", "Food">>, now, TXT_Two)

SampleTrips == {SampleTrip(d, now) : d \in Dests, now \in 1..2}

NoRet == [op |-> "none", fault |-> "none", before |-> MissingFile,
          trip |-> None, raised |-> FALSE, value |-> <<>>]

Callers == {1, 2}

ConcIdle ==
  /\ pc = [p \in Callers |-> "idle"]
  /\ local = [p \in Callers |-> <<>>]
  /\ arg = [p \in Callers |-> None]
  /\ stale = [p \in Callers |-> FALSE]
  /\ clean = [p \in Callers |-> TRUE]
  /\ raced = FALSE

DefaultForm ==
  [from_location |-> "Hyderabad, India", dest |-> "Jammu, India", days |-> 5,
   budget |-> "Economy", pax |-> "Solo", interests |-> <<"Sightseeing", "Food">>]

NoGen == [invocations |-> 0, backend_calls |-> 0, calls |-> 0, raised |-> FALSE,
          outcome |-> [kind |-> "none", text |-> <<>>], text |-> <<>>,
          form |-> DefaultForm, top_query |-> "", top |-> <<>>]

NoCall == [fn |-> "none", key_set |-> TRUE, outcome |-> [kind |-> "none", results |-> <<>>],
           count |-> 0, raised |-> FALSE, warned |-> FALSE, value |-> <<>>]

NoPrompt == [destination |-> <<>>, days |-> 0, budget |-> <<>>, pax |-> <<>>,
             interests |-> <<>>, value |-> <<>>]

UiIdle ==
  /\ session_state = [nav_page |-> "home"]
  /\ form = DefaultForm
  /\ view = [page |-> "home", save_button |-> FALSE, crashed |-> FALSE]
  /\ clock = 0
  /\ gen = NoGen
  /\ extract_input = None
  /\ loc_details = <<>>
  /\ prompt = NoPrompt

PipeIdle ==
  /\ text = <<>>
  /\ stage = "idle"
  /\ places = <<>>
  /\ locations = <<>>
  /\ lookups = <<>>
  /\ call = NoCall

ConfigDefault ==
  /\ api_key_set = TRUE
  /\ maps_key_set = TRUE

(***************************************************************************)
(* The Trip Store called by one process, one call at a time.               *)
(***************************************************************************)
CallLoad(fault) ==
  LET r == load_saved_trips(file, fault)
  IN /\ file' = r.file
     /\ ret' = [op |-> "load", fault |-> fault, before |-> file, trip |-> None,
                raised |-> r.raised, value |-> r.value]
     /\ UNCHANGED <<saved, ncalls>>
     /\ UNCHANGED <<concVars, configVars, prompt, uiVars, loc_details, pipeVars>>

CallSave(trip, fault) ==
  LET r == save_trip(file, trip, fault)
  IN /\ ncalls < MaxCalls
     /\ file' = r.file
     /\ ret' = [op |-> "save", fault |-> fault, before |-> file, trip |-> Some(trip),
                raised |-> r.raised, value |-> <<>>]
     /\ saved' = IF r.raised THEN saved ELSE Append(saved, trip)
     /\ ncalls' = ncalls + 1
     /\ UNCHANGED <<concVars, configVars, prompt, uiVars, loc_details, pipeVars>>

InitStore ==
  /\ file \in {MissingFile, JsonFile(<<>>)}
  /\ ret = NoRet
  /\ saved = <<>>
  /\ ncalls = 0
  /\ ConcIdle
  /\ ConfigDefault
  /\ UiIdle
  /\ PipeIdle

NextStore ==
  \/ CallLoad("none")
  \/ \E trip \in SampleTrips : CallSave(trip, "none")

SpecStore == InitStore /\ [][NextStore]_vars

\* The same calls when I/O may fail and the file may hold anything.
InitStoreFault ==
  /\ file \in {MissingFile, JsonFile(<<>>), TruncatedFile} \cup
              {JsonFile(<<t>>) : t \in SampleTrips}
  /\ ret = NoRet
  /\ saved = IF file.kind = "json" THEN json_load(file.content) ELSE <<>>
  /\ ncalls = 0
  /\ ConcIdle
  /\ ConfigDefault
  /\ UiIdle
  /\ PipeIdle

NextStoreFault ==
  \/ \E fault \in Faults : CallLoad(fault)
  \/ \E trip \in SampleTrips, fault \in Faults : CallSave(trip, fault)

SpecStoreFault == InitStoreFault /\ [][NextStoreFault]_vars

(***************************************************************************)
(* save_trip called by two callers (two sessions of the app) with no lock: *)
(* one action per I/O step.  A caller whose file was written by the other  *)
(* between its open and its dump writes over that text without truncating  *)
(* it again, which leaves its own array or unparsable text.                *)
(***************************************************************************)
Others(p) == Callers \ {p}

\* save_trip is entered; ensure_saved_trips_file tests os.path.exists
SaveBegin(p) ==
  /\ pc[p] = "idle"
  /\ ncalls < MaxCalls
  /\ \E d \in Dests : arg' = [arg EXCEPT ![p] = Some(SampleTrip(d, ncalls + 1))]
  /\ ncalls' = ncalls + 1
  /\ raced' = (raced \/ \E q \in Others(p) : pc[q] # "idle")
  /\ pc' = [pc EXCEPT ![p] = IF file.kind = "missing" THEN "ensure_open" ELSE "read"]
  /\ UNCHANGED <<file, ret, saved, local, stale, clean>>
  /\ UNCHANGED <<configVars, prompt, uiVars, loc_details, pipeVars>>

\* ensure_saved_trips_file: open(TRIPS_FILE, "w")
EnsureOpen(p) ==
  /\ pc[p] = "ensure_open"
  /\ file' = open_w(file, FALSE).file
  /\ clean' = [clean EXCEPT ![p] = TRUE]
  /\ pc' = [pc EXCEPT ![p] = "ensure_dump"]
  /\ UNCHANGED <<ret, saved, ncalls, local, arg, stale, raced>>
  /\ UNCHANGED <<configVars, prompt, uiVars, loc_details, pipeVars>>

\* the file after json.dump(trips, f) and close by caller p
Dumped(p, trips) ==
  IF clean[p] THEN {dump(file, trips, FALSE).file}
  ELSE {dump(file, trips, FALSE).file, TruncatedFile}

\* ensure_saved_trips_file: json.dump([], f)
EnsureDump(p) ==
  /\ pc[p] = "ensure_dump"
  /\ file' \in Dumped(p, <<>>)
  /\ clean' = [q \in Callers |-> q = p]
  /\ pc' = [pc EXCEPT ![p] = "read"]
  /\ UNCHANGED <<ret, saved, ncalls, local, arg, stale, raced>>
  /\ UNCHANGED <<configVars, prompt, uiVars, loc_details, pipeVars>>

\* load_saved_trips: open(TRIPS_FILE, "r") and json.load(f)
SaveRead(p) ==
  LET r == read_file(file, "none")
  IN /\ pc[p] = "read"
     /\ IF r.raised
        THEN /\ pc' = [pc EXCEPT ![p] = "idle"]
             /\ arg' = [arg EXCEPT ![p] = None]
             /\ UNCHANGED <<local, stale>>
        ELSE /\ pc' = [pc EXCEPT ![p] = "write_open"]
             /\ local' = [local EXCEPT ![p] = r.value]
             /\ stale' = [stale EXCEPT ![p] = FALSE]
             /\ UNCHANGED arg
     /\ UNCHANGED <<file, ret, saved, ncalls, clean, raced>>
     /\ UNCHANGED <<configVars, prompt, uiVars, loc_details, pipeVars>>

\* save_trip: open(TRIPS_FILE, "w")
SaveOpen(p) ==
  /\ pc[p] = "write_open"
  /\ file' = open_w(file, FALSE).file
  /\ clean' = [clean EXCEPT ![p] = TRUE]
  /\ pc' = [pc EXCEPT ![p] = "write_dump"]
  /\ UNCHANGED <<ret, saved, ncalls, local, arg, stale, raced>>
  /\ UNCHANGED <<configVars, prompt, uiVars, loc_details, pipeVars>>

\* save_trip: json.dump(trips, f, indent=2), and the return
SaveDump(p) ==
  /\ pc[p] = "write_dump"
  /\ file' \in Dumped(p, trips_append(local[p], arg[p][1]))
  /\ saved' = Append(saved, arg[p][1])
  /\ stale' = [q \in Callers |-> q # p \/ stale[q]]
  /\ clean' = [q \in Callers |-> q = p]
  /\ pc' = [pc EXCEPT ![p] = "idle"]
  /\ arg' = [arg EXCEPT ![p] = None]
  /\ local' = [local EXCEPT ![p] = <<>>]
  /\ UNCHANGED <<ret, ncalls, raced>>
  /\ UNCHANGED <<configVars, prompt, uiVars, loc_details, pipeVars>>

InitConc ==
  /\ file \in {MissingFile, JsonFile(<<>>)}
  /\ ret = NoRet
  /\ saved = <<>>
  /\ ncalls = 0
  /\ ConcIdle
  /\ ConfigDefault
  /\ UiIdle
  /\ PipeIdle

NextConc ==
  \E p \in Callers :
    \/ SaveBegin(p)
    \/ EnsureOpen(p)
    \/ EnsureDump(p)
    \/ SaveRead(p)
    \/ SaveOpen(p)
    \/ SaveDump(p)

SpecConc == InitConc /\ [][NextConc]_vars

(***************************************************************************)
(* Claims about the Trip Store.                                            *)
(***************************************************************************)
Stored == json_load(file.content)

\* C1: starting from a missing or empty store, with save_trip called one call at
\* a time by one process, the store holds exactly the saved records in save
\* order: load_saved_trips returns that sequence, of length the number of calls,
\* and each save_trip leaves the records stored before it in place and adds its
\* record after them.
C1_AppendOnlyInOrder ==
  /\ Len(saved) = ncalls
  /\ file.kind # "garbage"
  /\ file.kind = "missing" => ncalls = 0
  /\ file.kind = "json" => Stored = saved
  /\ ret.op = "load" => ~ret.raised /\ ret.value = saved /\ Len(ret.value) = ncalls
  /\ (ret.op = "save" /\ ret.before.kind = "json") =>
       /\ ~ret.raised
       /\ Len(Stored) = Len(ret.before.content) + 1
       /\ SubSeq(Stored, 1, Len(Stored) - 1) = json_load(ret.before.content)
       /\ Stored[Len(Stored)] = ret.trip[1]

C1_Witness ==
  /\ ret.op = "load"
  /\ Len(ret.value) >= 2
  /\ ret.value[1] # ret.value[2]

\* C2: load_saved_trips on a missing store returns the empty sequence and leaves
\* the store existing with an empty array; on an empty store it returns the
\* empty sequence too; save_trip on a missing or an empty store leaves a store
\* of exactly one record, the saved one.
C2_MissingStoreIsEmpty ==
  /\ (ret.op = "load" /\ ret.before.kind = "missing") =>
       /\ ~ret.raised
       /\ ret.value = <<>>
       /\ file = [kind |-> "json", content |-> <<>>]
  /\ (ret.op = "load" /\ ret.before = [kind |-> "json", content |-> <<>>]) =>
       /\ ~ret.raised
       /\ ret.value = <<>>
       /\ file = ret.before
  /\ (ret.op = "save" /\ (ret.before.kind = "missing" \/
                          ret.before = [kind |-> "json", content |-> <<>>])) =>
       /\ ~ret.raised
       /\ file.kind = "json"
       /\ Len(file.content) = 1
       /\ Stored = <<ret.trip[1]>>

C2_Witness ==
  /\ ret.op = "load"
  /\ ret.before.kind = "missing"
  /\ file.kind = "json"

C4_FailureLosesNothing ==
  /\ (ret.op # "none" /\ (ret.before.kind = "garbage" \/ ret.fault = "read")) =>
       ret.raised
  /\ (ret.op # "none" /\ ret.before.kind = "garbage") => file = ret.before
  /\ (ret.op = "save" /\ ret.fault \in {"write_open", "write_dump"}) => ret.raised
  /\ (ret.op = "save" /\ ret.raised /\ ret.before.kind = "json" /\
      Len(ret.before.content) > 0) => file = ret.before
  /\ (ret.op = "save" /\ ~ret.raised) =>
       /\ file.kind = "json"
       /\ ret.trip[1] \in Range(Stored)

(***************************************************************************)
(* The responses of the two backends.                                      *)
(***************************************************************************)
TXT_TwoRaw == <<" ", "V", "i", "s", "i", "t", " ", "G", "o", "a", "\n", "S", "t", "a", "y", " ", "a", "t", " ", "T", "a", "j", "\n">>
S_timeout == <<"t", "i", "m", "e", "o", "u", "t">>
S_quota == <<"q", "u", "o", "t", "a">>
S_notext == <<"n", "o", " ", "t", "e", "x", "t">>
S_GoaBeach == <<"G", "o", "a", " ", "B", "e", "a", "c", "h">>
S_TajHotel == <<"T", "a", "j", " ", "H", "o", "t", "e", "l">>

\* GEMINI_MODEL.generate_content(prompt): a text, or a failure with its message
GeminiOutcomes ==
  {[kind |-> "ok", text |-> TXT_TwoRaw],
   [kind |-> "network", text |-> S_timeout],
   [kind |-> "quota", text |-> S_quota],
   [kind |-> "malformed", text |-> S_notext]}

\* entries of the places-search backend: with every field, with a name only,
\* and without a name
E_GoaBeach ==
  [name |-> S_GoaBeach, formatted_address |-> "Calangute, Goa", rating |-> 45,
   photos |-> <<[photo_reference |-> "ref1"]>>, place_id |-> "p1",
   price_level |-> 2, types |-> <<"tourist_attraction">>]
E_TajHotel == [name |-> S_TajHotel]
E_NoName == [formatted_address |-> "Panaji, Goa", rating |-> 40]

Entries == {E_GoaBeach, E_TajHotel, E_NoName}

RECURSIVE SeqsUpTo(_, _)
SeqsUpTo(S, n) ==
  IF n = 0 THEN {<<>>}
  ELSE LET shorter == SeqsUpTo(S, n - 1)
       IN shorter \cup {Append(q, x) : q \in {r \in shorter : Len(r) = n - 1}, x \in S}

FailedResponses ==
  {[kind |-> k, results |-> <<>>] : k \in {"network_error", "http_error", "bad_json"}}

\* requests.get(url, params=params, timeout=10) and what follows it: the call
\* fails, the status is not a success, the body is not JSON, or the body is an
\* object with "results".  Without a key the backend denies the request: an
\* error status, or a success status with no results.
PlacesBackend(key_set) ==
  IF key_set
  THEN FailedResponses \cup {[kind |-> "ok", results |-> r] : r \in SeqsUpTo(Entries, MaxEntries)}
  ELSE {[kind |-> "http_error", results |-> <<>>], [kind |-> "ok", results |-> <<>>]}

\* the responses the model of the UI draws from
PlacesBackendUI ==
  {[kind |-> "network_error", results |-> <<>>], [kind |-> "ok", results |-> <<E_GoaBeach>>]}

(***************************************************************************)
(* The UI (src/Roamio.py): every user interaction reruns the script once.  *)
(***************************************************************************)
MARK_ERROR == <<"E", "R", "R", "O", "R", ":">>
MARK_GEMINI == <<"G", "e", "m", "i", "n", "i", " ", "e", "r", "r", "o", "r", ":">>
IsErrorText(t) == StartsWith(t, MARK_ERROR) \/ StartsWith(t, MARK_GEMINI)

\* for loc in locations: details = fetch_place_details(loc, ...); if details: append
RECURSIVE EnrichLoop(_, _, _)
EnrichLoop(locs, resp, acc) ==
  IF Len(locs) = 0 THEN acc
  ELSE LET details == fetch_place_details(Head(resp)).value
       IN EnrichLoop(Tail(locs), Tail(resp),
                     IF IsNone(details) THEN acc ELSE Append(acc, details[1]))

\* The plan page from "if 'latest_itinerary' in st.session_state" on, for the
\* session state ss and the store f (after the load of the Saved Trips column):
\* extraction, place lookups, display, and the Save button.
PlanDisplay(ss, f, save_btn) ==
  IF "latest_itinerary" \in DOMAIN ss
  THEN LET it == ss["latest_itinerary"]
           s == save_trip(f, it, "none")
       IN \* in whichever order list(locations) has them, the backend answers each
          /\ \E locs \in {extract_locations_from_itinerary(it.itinerary_text)} :
               \E resp \in [1..Len(locs) -> PlacesBackendUI] :
                  loc_details' = EnrichLoop(locs, resp, <<>>)
          /\ extract_input' = Some(it.itinerary_text)
          /\ IF save_btn
             THEN /\ file' = s.file
                  /\ saved' = IF s.raised THEN saved ELSE Append(saved, it)
                  /\ ncalls' = ncalls + 1
                  /\ view' = [page |-> "plan", save_button |-> TRUE, crashed |-> s.raised]
             ELSE /\ file' = f
                  /\ view' = [page |-> "plan", save_button |-> TRUE, crashed |-> FALSE]
                  /\ UNCHANGED <<saved, ncalls>>
  ELSE /\ loc_details' = <<>>
       /\ extract_input' = None
       /\ file' = f
       /\ view' = [page |-> "plan", save_button |-> FALSE, crashed |-> FALSE]
       /\ UNCHANGED <<saved, ncalls>>

\* the script stops at an exception: nothing below it is rendered
Crash(f) ==
  /\ file' = f
  /\ view' = [page |-> "plan", save_button |-> FALSE, crashed |-> TRUE]
  /\ loc_details' = <<>>
  /\ extract_input' = None
  /\ UNCHANGED <<saved, ncalls>>

GenerateBlockKeepPlaces(ss, fm, g, top) ==
  ("latest_itinerary" :>
      Itinerary(fm.from_location, fm.dest, fm.days, fm.budget, fm.pax, fm.interests,
                clock + 1, g.text)) @@
  ss @@ ("places" :> top.value)

\* the "if generate_btn:" block
GenerateBlock(ss, fm, g, top) ==
  ("latest_itinerary" :>
      Itinerary(fm.from_location, fm.dest, fm.days, fm.budget, fm.pax, fm.interests,
                clock + 1, g.text)) @@
  ("places" :> top.value) @@ ss

\* One run of the plan page with the widget values fm.
PlanPage(ss, fm, generate_btn, save_btn) ==
  LET l == load_saved_trips(file, "none")
  IN /\ form' = fm
     /\ IF l.raised
        THEN /\ session_state' = ss
             /\ Crash(l.file)
             /\ UNCHANGED <<clock, gen>>
        ELSE IF generate_btn
        THEN \E go \in GeminiOutcomes, po \in PlacesBackendUI :
               LET g == generate_itinerary_gemini(api_key_set, go)
                   top == fetch_places_google(maps_key_set, po, 6)
               IN /\ clock' = clock + 1
                  /\ gen' = [invocations |-> gen.invocations + 1,
                             backend_calls |-> gen.backend_calls + g.calls,
                             calls |-> g.calls, raised |-> g.raised,
                             outcome |-> go, text |-> g.text,
                             form |-> fm, top_query |-> fm.dest, top |-> top.value]
                  /\ IF g.raised \/ top.raised
                     THEN /\ session_state' = ss
                          /\ Crash(l.file)
                     ELSE /\ session_state' = GenerateBlock(ss, fm, g, top)
                          /\ PlanDisplay(GenerateBlock(ss, fm, g, top), l.file, save_btn)
        ELSE /\ session_state' = ss
             /\ PlanDisplay(ss, l.file, save_btn)
             /\ UNCHANGED <<clock, gen>>

Navigate(page) == ("nav_page" :> page) @@ session_state

\* the navbar buttons
ClickHome ==
  /\ session_state' = Navigate("home")
  /\ view' = [page |-> "home", save_button |-> FALSE, crashed |-> FALSE]
  /\ form' = DefaultForm
  /\ loc_details' = <<>>
  /\ extract_input' = None
  /\ UNCHANGED <<file, saved, ncalls, clock, gen>>
  /\ UNCHANGED <<ret, concVars, configVars, prompt, pipeVars>>

ClickPlan ==
  /\ PlanPage(Navigate("plan"), IF view.page = "plan" THEN form ELSE DefaultForm,
              FALSE, FALSE)
  /\ UNCHANGED <<ret, concVars, configVars, prompt, pipeVars>>

\* the saved page: st.session_state.get("saved_trips", load_saved_trips())
\* evaluates load_saved_trips() first
ClickSaved ==
  LET l == load_saved_trips(file, "none")
  IN /\ session_state' = Navigate("saved")
     /\ file' = l.file
     /\ view' = [page |-> "saved", save_button |-> FALSE, crashed |-> l.raised]
     /\ form' = DefaultForm
     /\ loc_details' = <<>>
     /\ extract_input' = None
     /\ UNCHANGED <<saved, ncalls, clock, gen>>
     /\ UNCHANGED <<ret, concVars, configVars, prompt, pipeVars>>

\* the Destination input is changed
EditForm(d) ==
  /\ view.page = "plan"
  /\ d # form.dest
  /\ PlanPage(session_state, [form EXCEPT !.dest = d], FALSE, FALSE)
  /\ UNCHANGED <<ret, concVars, configVars, prompt, pipeVars>>

\* trips[-5:]
RECENT == 5
LastN(trips, n) == SubSeq(trips, IF Len(trips) > n THEN Len(trips) - n + 1 ELSE 1, Len(trips))
Reversed(trips) == [k \in 1..Len(trips) |-> trips[Len(trips) + 1 - k]]

\* the button "Load #i" of the Saved Trips column
ClickLoad(i) ==
  LET l == load_saved_trips(file, "none")
      shown == Reversed(LastN(l.value, RECENT))
  IN /\ view.page = "plan"
     /\ ~l.raised
     /\ i < Len(shown)
     /\ PlanPage(("loaded_trip" :> shown[i + 1]) @@ session_state, form, FALSE, FALSE)
     /\ UNCHANGED <<ret, concVars, configVars, prompt, pipeVars>>

ClickGenerate ==
  /\ view.page = "plan"
  /\ clock < MaxGenerations
  /\ PlanPage(session_state, form, TRUE, FALSE)
  /\ UNCHANGED <<ret, concVars, configVars, prompt, pipeVars>>

ClickSave ==
  /\ view.page = "plan"
  /\ view.save_button
  /\ ncalls < MaxSaves
  /\ PlanPage(session_state, form, FALSE, TRUE)
  /\ UNCHANGED <<ret, concVars, configVars, prompt, pipeVars>>

Init ==
  /\ file \in {MissingFile, JsonFile(<<>>)}
  /\ ret = NoRet
  /\ saved = <<>>
  /\ ncalls = 0
  /\ ConcIdle
  /\ api_key_set \in BOOLEAN
  /\ maps_key_set = TRUE
  /\ UiIdle
  /\ PipeIdle

Next ==
  \/ ClickHome
  \/ ClickPlan
  \/ ClickSaved
  \/ \E d \in Dests : EditForm(d)
  \/ \E i \in 0..(RECENT - 1) : ClickLoad(i)
  \/ ClickGenerate
  \/ ClickSave

Spec == Init /\ [][Next]_vars

(***************************************************************************)
(* The Location Extractor applied to one text.                             *)
(***************************************************************************)
TXT_BahuFort == <<"D", "a", "y", " ", "1", ":", " ", "V", "i", "s", "i", "t", " ", "B", "a", "h", "u", " ", "F", "o", "r", "t", ".">>
TXT_RedFort == <<"D", "a", "y", " ", "1", ":", " ", "V", "i", "s", "i", "t", " ", "R", "e", "d", " ", "F", "o", "r", "t", " ", "a", "n", "d", " ", "e", "n", "j", "o", "y", " ", "t", "h", "e", " ", "e", "v", "e", "n", "i", "n", "g", ".">>
TXT_PassedOver == <<"V", "i", "s", "i", "t", " ", ".", "E", "x", "p", "l", "o", "r", "e", " ", "G", "o", "a">>
TXT_Backtrack == <<"V", "i", "s", "i", "t", " ", " ", ".", "E", "x", "p", "l", "o", "r", "e", " ", "G", "o", "a">>
TXT_TabDot == <<"V", "i", "s", "i", "t", " ", "\t", ".", "H", "o", "t", "e", "l", " ", "T", "a", "j">>
TXT_Nested == <<"C", "h", "e", "c", "k", "-", "i", "n", " ", "a", "t", " ", "H", "o", "t", "e", "l", " ", "T", "a", "j", ",", " ", "G", "o", "a", " ", "-", " ", "2", " ", "n", "i", "g", "h", "t", "s">>
S_BahuFort == <<"B", "a", "h", "u", " ", "F", "o", "r", "t">>
S_BahuFortDot == <<"B", "a", "h", "u", " ", "F", "o", "r", "t", ".">>
K_VisitGoa == <<"V", "i", "s", "i", "t", " ", "G", "o", "a">>
K_StayAtTaj == <<"S", "t", "a", "y", " ", "a", "t", " ", "T", "a", "j">>
K_VisitAB == <<"V", "i", "s", "i", "t", " ", "A", "B">>

\* the pieces the texts of the model are put together from
Tokens ==
  {T_Visit, K_VisitGoa, K_StayAtTaj, K_VisitAB, <<" ">>, <<"\t">>, <<"\n">>, <<".">>,
   <<",">>, <<"G", "o", "a">>}

ScenarioTexts ==
  {TXT_BahuFort, TXT_RedFort, TXT_PassedOver, TXT_Backtrack, TXT_TabDot, TXT_Nested}

ExtractTexts == {Concat(ts) : ts \in SeqsUpTo(Tokens, MaxTokens)} \cup ScenarioTexts

ExtractLocations ==
  /\ stage = "input"
  /\ locations' \in Permutations_(extract_locations_from_itinerary(text))
  /\ stage' = "extracted"
  /\ UNCHANGED <<text, places, lookups, call, loc_details>>
  /\ UNCHANGED <<storeVars, concVars, configVars, prompt, uiVars>>

InitExtract ==
  /\ file = MissingFile
  /\ ret = NoRet
  /\ saved = <<>>
  /\ ncalls = 0
  /\ ConcIdle
  /\ ConfigDefault
  /\ UiIdle
  /\ text \in ExtractTexts
  /\ stage = "input"
  /\ places = <<>>
  /\ locations = <<>>
  /\ lookups = <<>>
  /\ call = NoCall

NextExtract == ExtractLocations

SpecExtract == InitExtract /\ [][NextExtract]_vars

(***************************************************************************)
(* Claims about the Itinerary Generator and its callers.                   *)
(***************************************************************************)
\* t is s without its leading and trailing whitespace
IsStripOf(t, s) ==
  \E i \in 1..Len(s) + 1, j \in 0..Len(s) :
    /\ t = SubSeq(s, i, j)
    /\ \A k \in 1..Len(s) : (k < i \/ k > j) => s[k] \in Whitespace
    /\ Len(t) > 0 => t[1] \notin Whitespace /\ t[Len(t)] \notin Whitespace

GenerationFacts(success_text) ==
  /\ ~gen.raised
  /\ gen.invocations = clock
  /\ gen.backend_calls <= gen.invocations
  /\ ~api_key_set => gen.backend_calls = 0
  /\ gen.invocations > 0 =>
       /\ "latest_itinerary" \in DOMAIN session_state
       /\ session_state["latest_itinerary"].itinerary_text = gen.text
       /\ IF ~api_key_set
          THEN gen.calls = 0 /\ gen.text = ERR_NO_KEY
          ELSE /\ gen.calls = 1
               /\ gen.outcome.kind = "ok" => success_text
               /\ gen.outcome.kind # "ok" =>
                    /\ StartsWith(gen.text, MARK_GEMINI)
                    /\ gen.text = MARK_GEMINI \o <<" ">> \o gen.outcome.text

\* C5 (amended): generate_itinerary_gemini never raises and calls the backend
\* at most once: without the model it returns the configuration-error string
\* and makes no call; on a backend failure it returns "Gemini error: " and the
\* failure's message after one call; on success it returns the backend text
\* without its leading and trailing whitespace.  Each Generate action makes
\* exactly one generation call, whose result becomes the itinerary text.
C5_GenerateNeverRaises == GenerationFacts(IsStripOf(gen.text, gen.outcome.text))

C5_Witness ==
  /\ api_key_set
  /\ gen.invocations = 2
  /\ gen.outcome.kind = "malformed"
  /\ gen.calls = 1

\* C5 as stated: on success the backend text itself is returned.
C5_ReturnsBackendText == GenerationFacts(gen.text = gen.outcome.text)

\* C6: a generation result that begins with an error marker is not used as an
\* itinerary: it is never passed to the location extractor and never stored in
\* the Trip Store as a record's itinerary text.
C6_ErrorTextNotUsed ==
  /\ Len(extract_input) > 0 => ~IsErrorText(extract_input[1])
  /\ file.kind = "json" =>
       \A i \in 1..Len(Stored) : ~IsErrorText(Stored[i].itinerary_text)

(***************************************************************************)
(* Claims about the Location Extractor.                                    *)
(***************************************************************************)
Min(S) == CHOOSE x \in S : \A y \in S : x <= y

Lines(t) ==
  LET breaks == {0} \cup {i \in 1..Len(t) : t[i] = "\n"} \cup {Len(t) + 1}
  IN {SubSeq(t, a + 1, b - 1) :
        <<a, b>> \in {q \in breaks \X breaks :
                        q[1] < q[2] /\ \A c \in breaks : ~(q[1] < c /\ c < q[2])}}

InClass(c) ==
  \/ c \in UpperCase \cup LowerCase \cup Digits
  \/ c \in {" ", ",", "'", "-"}

\* the positions right after a trigger phrase that starts at p
TriggerEnds(line, p) == {p + Len(Triggers[a]) : a \in {b \in 1..Len(Triggers) : HasAt(line, p, Triggers[b])}}

\* whitespace from e up to k, k > e
WhiteUpTo(line, e, k) == k > e /\ \A i \in e..(k - 1) : i <= Len(line) /\ line[i] \in (Whitespace \ {"\n"})

\* the pattern matches at p: a trigger phrase, whitespace, an allowed character
Matches(line, p) ==
  \E e \in TriggerEnds(line, p) : \E k \in (e + 1)..Len(line) :
     WhiteUpTo(line, e, k) /\ InClass(line[k])

\* a trigger phrase followed by whitespace starts at p
TriggerAndWhite(line, p) ==
  \E e \in TriggerEnds(line, p) : WhiteUpTo(line, e, e + 1)

\* the allowed characters from the first character that is not whitespace after
\* the trigger phrase at p, without the spaces at their end ("" if there are none)
RunAfter(line, p) ==
  LET e == Min(TriggerEnds(line, p))
      b == Min({k \in e..(Len(line) + 1) : k > Len(line) \/ line[k] \notin Whitespace})
      stop == Min({k \in b..(Len(line) + 1) : k > Len(line) \/ ~InClass(line[k])})
      last == {k \in b..(stop - 1) : line[k] # " "}
  IN IF last = {} THEN <<>> ELSE SubSeq(line, b, CHOOSE k \in last : \A m \in last : m <= k)

\* the candidates of a text, the positions the search stops at given by At
CandidatesBy(t, At(_, _)) ==
  {RunAfter(line, Min({p \in 1..Len(line) : At(line, p)})) :
     line \in {l \in Lines(t) : \E p \in 1..Len(l) : At(l, p)}}

ExtractionFacts(At(_, _)) ==
  stage = "extracted" =>
    /\ NoDuplicates(locations)
    /\ Len(locations) <= Cardinality(Lines(text))
    /\ Range(locations) = {c \in CandidatesBy(text, At) : Len(c) > 2}

\* C8 (amended): for "Day 1: Visit Bahu Fort." the extractor returns exactly
\* "Bahu Fort": the full stop is not an allowed character, so the run ends
\* before it.
C8_BahuFort ==
  (stage = "extracted" /\ text = TXT_BahuFort) => locations = <<S_BahuFort>>

C8_Witness == stage = "extracted" /\ text = TXT_BahuFort

\* C8 as stated: the result is exactly the set {"Bahu Fort."}.
C8_BahuFortWithFullStop ==
  (stage = "extracted" /\ text = TXT_BahuFort) => Range(locations) = {S_BahuFortDot}

\* C9 (amended): the extractor returns a collection without repetitions, of at
\* most one candidate per line: for each line in which a trigger phrase,
\* whitespace and an allowed character follow one another, the run of allowed
\* characters after the first such trigger phrase and its whitespace, trimmed,
\* if that is longer than 2 characters.
C9_Candidates == ExtractionFacts(Matches)

C9_Witness ==
  /\ stage = "extracted"
  /\ text = K_VisitGoa \o <<"\n">> \o K_VisitGoa
  /\ Len(locations) = 1

\* C9 as stated: the run after the first trigger phrase plus whitespace of the
\* line, whether or not an allowed character follows that whitespace.
C9_FirstTriggerAndWhite == ExtractionFacts(TriggerAndWhite)

(***************************************************************************)
(* The enrichment pipeline of the plan page, one statement at a time:      *)
(* fetch_places_google(dest, count=6), extract_locations_from_itinerary,   *)
(* one fetch_place_details per location, the display, and Save.  The two   *)
(* credentials are a parameter of the deployment.                          *)
(***************************************************************************)
TOP_COUNT == 6

EnrichTexts == {<<>>, TXT_Two, TXT_BahuFort, K_VisitGoa \o <<"\n">> \o K_VisitGoa}

\* st.session_state["places"] = fetch_places_google(dest, count=6)
FetchTop ==
  /\ stage = "generated"
  /\ \E o \in PlacesBackend(maps_key_set) :
       LET r == fetch_places_google(maps_key_set, o, TOP_COUNT)
       IN /\ call' = [fn |-> "fetch_places_google", key_set |-> maps_key_set, outcome |-> o,
                      count |-> TOP_COUNT, raised |-> r.raised, warned |-> r.warned,
                      value |-> r.value]
          /\ places' = r.value
          /\ stage' = IF r.raised THEN "crashed" ELSE "extract"
  /\ UNCHANGED <<text, locations, lookups, loc_details>>
  /\ UNCHANGED <<storeVars, concVars, configVars, prompt, uiVars>>

\* locations = extract_locations_from_itinerary(it["itinerary_text"]); loc_details = []
ExtractStep ==
  /\ stage = "extract"
  /\ locations' \in Permutations_(extract_locations_from_itinerary(text))
  /\ lookups' = <<>>
  /\ loc_details' = <<>>
  /\ stage' = "lookup"
  /\ UNCHANGED <<text, places, call>>
  /\ UNCHANGED <<storeVars, concVars, configVars, prompt, uiVars>>

\* one turn of "for loc in locations"
LookupNext ==
  /\ stage = "lookup"
  /\ Len(lookups) < Len(locations)
  /\ \E o \in PlacesBackend(api_key_set) :
       LET r == fetch_place_details(o)
       IN /\ call' = [fn |-> "fetch_place_details", key_set |-> api_key_set, outcome |-> o,
                      count |-> 1, raised |-> r.raised, warned |-> r.warned,
                      value |-> r.value]
          /\ loc_details' = IF r.raised \/ IsNone(r.value) THEN loc_details
                            ELSE Append(loc_details, r.value[1])
          /\ stage' = IF r.raised THEN "crashed" ELSE "lookup"
  /\ lookups' = Append(lookups, locations[Len(lookups) + 1])
  /\ UNCHANGED <<text, places, locations>>
  /\ UNCHANGED <<storeVars, concVars, configVars, prompt, uiVars>>

\* the cards, st.info(it["itinerary_text"]) and the Save button
Render ==
  /\ stage = "lookup"
  /\ Len(lookups) = Len(locations)
  /\ stage' = "rendered"
  /\ UNCHANGED <<text, places, locations, lookups, call, loc_details>>
  /\ UNCHANGED <<storeVars, concVars, configVars, prompt, uiVars>>

\* the Save button of the rendered page: save_trip(it)
SaveRendered ==
  /\ stage = "rendered"
  /\ LET it == Itinerary(form.from_location, form.dest, form.days, form.budget,
                         form.pax, form.interests, 1, text)
         s == save_trip(file, it, "none")
     IN /\ file' = s.file
        /\ saved' = IF s.raised THEN saved ELSE Append(saved, it)
        /\ ncalls' = ncalls + 1
        /\ stage' = IF s.raised THEN "crashed" ELSE "saved"
  /\ UNCHANGED <<text, places, locations, lookups, call, loc_details, ret>>
  /\ UNCHANGED <<concVars, configVars, prompt, uiVars>>

InitEnrich ==
  /\ file = MissingFile
  /\ ret = NoRet
  /\ saved = <<>>
  /\ ncalls = 0
  /\ ConcIdle
  /\ api_key_set \in BOOLEAN
  /\ maps_key_set \in BOOLEAN
  /\ UiIdle
  /\ text \in EnrichTexts
  /\ stage = "generated"
  /\ places = <<>>
  /\ locations = <<>>
  /\ lookups = <<>>
  /\ call = NoCall

NextEnrich ==
  \/ FetchTop
  \/ ExtractStep
  \/ LookupNext
  \/ Render
  \/ SaveRendered

SpecEnrich == InitEnrich /\ [][NextEnrich]_vars

(***************************************************************************)
(* Claims about Place Lookup and the enrichment pipeline.                  *)
(***************************************************************************)
Absent == <<>>

HasName(e) == "name" \in DOMAIN e

\* the fields of an entry other than its name that Place Lookup reads
OptionalFields == {"formatted_address", "rating", "photos", "place_id", "price_level", "types"}

LacksAField(e) == ~HasName(e) \/ \E k \in OptionalFields : k \notin DOMAIN e

\* the first n entries of a response
Consumed(o, n) == {o.results[i] : i \in 1..(IF n < Len(o.results) THEN n ELSE Len(o.results))}

\* the call's result is empty: no records, or no record
EmptyResult == call.value = <<>>

\* Place Lookup does not raise; it returns empty for a missing credential and a
\* failed call, and for a consumed entry that is Degraded
LookupFacts(Degraded(_)) ==
  /\ stage # "crashed"
  /\ call.fn # "none" =>
       /\ ~call.raised
       /\ ~call.key_set => EmptyResult
       /\ (call.fn = "fetch_places_google" /\ ~call.key_set) => ~call.warned
       /\ call.outcome.kind # "ok" => EmptyResult
       /\ (\E e \in Consumed(call.outcome, call.count) : Degraded(e)) => EmptyResult
  /\ stage \in {"rendered", "saved"} => Len(lookups) = Len(locations)
  /\ stage = "saved" => file.kind = "json" /\ Len(Stored) = 1 /\ Stored[1].itinerary_text = text

\* C7 (amended): Place Lookup never raises past its boundary: for a network
\* error, a non-success status, a malformed payload and an entry without a name,
\* and when the credential is absent, fetch_places_google returns
\* an empty sequence and fetch_place_details returns None, and the workflow
\* continues: the itinerary is shown and can be saved.  An entry that has its
\* name and lacks other fields yields a record with those fields absent.
C7_LookupNeverRaises ==
  /\ LookupFacts(LAMBDA e : ~HasName(e))
  /\ (call.fn = "fetch_places_google" /\ call.key_set /\ call.outcome.kind = "ok"
        /\ \A e \in Consumed(call.outcome, call.count) : HasName(e)) =>
       /\ Len(call.value) = Len(call.outcome.results)
       /\ \A i \in 1..Len(call.value) :
            /\ call.value[i].name = Some(call.outcome.results[i].name)
            /\ "rating" \notin DOMAIN call.outcome.results[i] => call.value[i].rating = Absent
  /\ (call.fn = "fetch_place_details" /\ call.outcome.kind = "ok"
        /\ Len(call.outcome.results) > 0 /\ HasName(call.outcome.results[1])) =>
       /\ Len(call.value) = 1
       /\ call.value[1].name = Some(call.outcome.results[1].name)
       /\ "rating" \notin DOMAIN call.outcome.results[1] => call.value[1].rating = Absent

C7_Witness ==
  /\ stage = "saved"
  /\ places = <<>>
  /\ call.fn = "fetch_place_details"
  /\ call.warned
  /\ call.outcome.kind = "ok"
  /\ loc_details = <<>>

\* C7 as stated: an entry with missing fields also makes the result empty.
C7_MissingFieldsGiveEmpty == LookupFacts(LacksAField)

\* C10: loc_details, the list of the records found for the extracted
\* candidates, has no two records with the same place name.
C10_NoTwoRecordsOfOneName ==
  \A i, j \in 1..Len(loc_details) :
     i # j => loc_details[i].name # loc_details[j].name

(***************************************************************************)
(* Place Lookup called on its own: fetch_places_google with a count and    *)
(* fetch_place_details, each on a response of the backend.                 *)
(***************************************************************************)
\* count: the plan page passes 6, the default is 5
Counts == (0..MaxCount) \cup {TOP_COUNT}

PriceLevels == 0..MaxPrice

E_Priced(p) == [name |-> S_TajHotel, place_id |-> "p2", price_level |-> p]

\* responses whose first entry has a price level
PricedResponses ==
  {[kind |-> "ok", results |-> <<E_Priced(p)>> \o rest] :
     p \in PriceLevels, rest \in {<<>>, <<E_GoaBeach>>}}

CallPlaces(count, o) ==
  LET r == fetch_places_google(maps_key_set, o, count)
  IN /\ call' = [fn |-> "fetch_places_google", key_set |-> maps_key_set, outcome |-> o,
                 count |-> count, raised |-> r.raised, warned |-> r.warned,
                 value |-> r.value]
     /\ stage' = "returned"
     /\ UNCHANGED <<text, places, locations, lookups, loc_details>>
     /\ UNCHANGED <<storeVars, concVars, configVars, prompt, uiVars>>

CallDetails(o) ==
  LET r == fetch_place_details(o)
  IN /\ call' = [fn |-> "fetch_place_details", key_set |-> api_key_set, outcome |-> o,
                 count |-> 1, raised |-> r.raised, warned |-> r.warned,
                 value |-> r.value]
     /\ stage' = "returned"
     /\ UNCHANGED <<text, places, locations, lookups, loc_details>>
     /\ UNCHANGED <<storeVars, concVars, configVars, prompt, uiVars>>

InitLookup ==
  /\ file = MissingFile
  /\ ret = NoRet
  /\ saved = <<>>
  /\ ncalls = 0
  /\ ConcIdle
  /\ ConfigDefault
  /\ UiIdle
  /\ PipeIdle

NextLookup ==
  \/ \E count \in Counts, o \in PlacesBackend(maps_key_set) : CallPlaces(count, o)
  \/ \E o \in PlacesBackend(api_key_set) \cup PricedResponses : CallDetails(o)

SpecLookup == InitLookup /\ [][NextLookup]_vars

(***************************************************************************)
(* Claims about the results of Place Lookup.                               *)
(***************************************************************************)
MinOf(a, b) == IF a < b THEN a ELSE b

\* the record rec is the entry e mapped: its name, its address and rating if it
\* has them, and the link made of its name and its place identifier
MappedFrom(rec, e) ==
  /\ rec.name = <<e.name>>
  /\ rec.address = (IF "formatted_address" \in DOMAIN e THEN <<e.formatted_address>> ELSE Absent)
  /\ rec.rating = (IF "rating" \in DOMAIN e THEN <<e.rating>> ELSE Absent)
  /\ rec.photo = Absent <=> ("photos" \notin DOMAIN e \/ e.photos = <<>>)
  /\ Len(rec.maps_url.query) = Len(e.name)
  /\ \A k \in 1..Len(e.name) :
       rec.maps_url.query[k] = (IF e.name[k] = " " THEN "+" ELSE e.name[k])
  /\ rec.maps_url.query_place_id = (IF "place_id" \in DOMAIN e THEN e.place_id ELSE <<>>)

\* the results of a successful call, given which responses count as mappable
RankFacts(Mappable(_, _)) ==
  /\ (call.fn = "fetch_places_google" /\ call.outcome.kind = "ok"
        /\ Mappable(call.outcome, call.count)) =>
       /\ ~call.raised
       /\ Len(call.value) = MinOf(call.count, Len(call.outcome.results))
       /\ \A i \in 1..Len(call.value) : MappedFrom(call.value[i], call.outcome.results[i])
  /\ (call.fn = "fetch_place_details" /\ call.outcome.kind = "ok") =>
       /\ ~call.raised
       /\ Len(call.outcome.results) = 0 => call.value = Absent
       /\ (Len(call.outcome.results) > 0 /\ Mappable(call.outcome, 1)) =>
            /\ Len(call.value) = 1
            /\ MappedFrom(call.value[1], call.outcome.results[1])

AllNamed(o, n) == \A e \in Consumed(o, n) : HasName(e)

AnyResponse(o, n) == TRUE

\* C11 (amended): on a successful response with n entries and a count >= 0,
\* fetch_places_google returns exactly min(count, n) records, the i-th mapped
\* from the i-th entry, if each of the first min(count, n) entries has a name,
\* and the empty sequence if one of them has none; fetch_place_details maps only
\* the first entry, and returns None when there is no entry or the first entry
\* has no name.
C11_RankOrder ==
  /\ RankFacts(AllNamed)
  /\ (call.fn # "none" /\ call.outcome.kind = "ok"
        /\ ~AllNamed(call.outcome, call.count)) => call.value = <<>>

C11_Witness ==
  /\ call.fn = "fetch_places_google"
  /\ call.outcome.kind = "ok"
  /\ call.count = 1
  /\ Len(call.outcome.results) = 2
  /\ call.outcome.results[1] # call.outcome.results[2]
  /\ Len(call.value) = 1

\* C11 as stated: every successful response gives min(count, n) records.
C11_EveryResponse == RankFacts(AnyResponse)

\* C12: the price of the record fetch_place_details returns is "Budget" for the
\* first entry's price level 1, "Moderate" for 2, "Expensive" for 3, "Luxury"
\* for 4, and empty for every other level and for an entry without one.
C12_PriceTiers ==
  (call.fn = "fetch_place_details" /\ Len(call.value) = 1) =>
    LET e == call.outcome.results[1]
        price == call.value[1].price
    IN IF "price_level" \notin DOMAIN e THEN price = ""
       ELSE /\ e.price_level = 1 <=> price = "Budget"
            /\ e.price_level = 2 <=> price = "Moderate"
            /\ e.price_level = 3 <=> price = "Expensive"
            /\ e.price_level = 4 <=> price = "Luxury"
            /\ e.price_level \notin 1..4 <=> price = ""

C12_Witness ==
  /\ call.fn = "fetch_place_details"
  /\ Len(call.value) = 1
  /\ call.outcome.results[1] = E_Priced(0)
  /\ call.value[1].price = ""

(***************************************************************************)
(* Prompt Builder.                                                         *)
(***************************************************************************)
P_CreateA == <<"C", "r", "e", "a", "t", "e", " ", "a", " ">>
P_DayItineraryFor == <<"-", "d", "a", "y", " ", "t", "r", "a", "v", "e", "l", " ", "i", "t", "i", "n", "e", "r", "a", "r", "y", " ", "f", "o", "r", " ">>
P_TravelingTo == <<" ", "t", "r", "a", "v", "e", "l", "i", "n", "g", " ", "t", "o", " ">>
P_Budget == <<".", " ", "B", "u", "d", "g", "e", "t", ":", " ">>
P_Interests == <<".", " ", "I", "n", "t", "e", "r", "e", "s", "t", "s", ":", " ">>
P_Rest == <<".", " ", "F", "o", "r", " ", "e", "a", "c", "h", " ", "d", "a", "y", ":", " ", "m", "o", "r", "n", "i", "n", "g", "/", "a", "f", "t", "e", "r", "n", "o", "o", "n", "/", "e", "v", "e", "n", "i", "n", "g", " ", "p", "l", "a", "n", ",", " ", "c", "o", "s", "t", "s", ",", " ", "t", "r", "a", "n", "s", "p", "o", "r", "t", ",", " ", "a", "n", "d", " ", "3", " ", "r", "e", "s", "t", "a", "u", "r", "a", "n", "t", "s", ".", " ", "S", "u", "g", "g", "e", "s", "t", " ", "S", "t", "a", "y", "s", " ", "w", "i", "t", "h", " ", "i", "m", "a", "g", "e", "s", " ", "&", " ", "G", "o", "o", "g", "l", "e", " ", "M", "a", "p", "s", " ", "l", "i", "n", "k", "s", ".", " ", "S", "u", "g", "g", "e", "s", "t", " ", "R", "e", "s", "t", "a", "u", "r", "a", "n", "t", "s", " ", "w", "i", "t", "h", " ", "i", "m", "a", "g", "e", "s", " ", "&", " ", "G", "o", "o", "g", "l", "e", " ", "M", "a", "p", "s", " ", "l", "i", "n", "k", "s", ".", " ", "A", "d", "d", " ", "a", " ", "p", "a", "c", "k", "i", "n", "g", " ", "t", "i", "p", " ", "f", "o", "r", " ", "l", "o", "c", "a", "l", " ", "c", "l", "i", "m", "a", "t", "e", ".", " ", "K", "e", "e", "p", " ", "i", "t", " ", "c", "o", "n", "c", "i", "s", "e", " ", "a", "n", "d", " ", "f", "r", "i", "e", "n", "d", "l", "y", ".">>
P_GeneralSightseeing == <<"g", "e", "n", "e", "r", "a", "l", " ", "s", "i", "g", "h", "t", "s", "e", "e", "i", "n", "g">>
P_CommaSpace == <<",", " ">>
D_Goa == <<"G", "o", "a">>
D_Jammu == <<"J", "a", "m", "m", "u", ",", " ", "I", "n", "d", "i", "a">>

\* the choices of the plan page's select boxes and multiselect
Budgets == {<<"E", "c", "o", "n", "o", "m", "y">>, <<"M", "o", "d", "e", "r", "a", "t", "e">>, <<"C", "o", "m", "f", "o", "r", "t">>, <<"L", "u", "x", "u", "r", "y">>}
PaxChoices == {<<"S", "o", "l", "o">>, <<"C", "o", "u", "p", "l", "e">>, <<"F", "a", "m", "i", "l", "y">>, <<"F", "r", "i", "e", "n", "d", "s">>}
InterestChoices == {<<"S", "i", "g", "h", "t", "s", "e", "e", "i", "n", "g">>, <<"F", "o", "o", "d">>, <<"H", "i", "k", "i", "n", "g">>}
Destinations == {D_Goa, D_Jammu}

DigitChar(d) == <<"0", "1", "2", "3", "4", "5", "6", "7", "8", "9">>[d + 1]

\* str(n) of an int n >= 0: its decimal numeral
RECURSIVE IntToStr(_)
IntToStr(n) == IF n < 10 THEN <<DigitChar(n)>> ELSE IntToStr(n \div 10) \o <<DigitChar(n % 10)>>

\* sep.join(items)
RECURSIVE Join(_, _)
Join(sep, items) ==
  IF Len(items) = 0 THEN <<>>
  ELSE IF Len(items) = 1 THEN items[1]
  ELSE items[1] \o sep \o Join(sep, Tail(items))

build_itinerary_prompt_no_default(destination, days, budget, pax, interests) ==
  P_CreateA \o IntToStr(days) \o P_DayItineraryFor \o pax \o P_TravelingTo \o destination \o
  P_Budget \o budget \o P_Interests \o Join(P_CommaSpace, interests) \o P_Rest

build_itinerary_prompt(destination, days, budget, pax, interests) ==
  LET interests_txt == IF Len(interests) > 0 THEN Join(P_CommaSpace, interests)
                       ELSE P_GeneralSightseeing
  IN P_CreateA \o IntToStr(days) \o P_DayItineraryFor \o pax \o P_TravelingTo \o destination \o
     P_Budget \o budget \o P_Interests \o interests_txt \o P_Rest

\* one call in a behaviour: the function reads and keeps no state
CallPrompt(destination, days, budget, pax, interests) ==
  /\ prompt = NoPrompt
  /\ prompt' = [destination |-> destination, days |-> days, budget |-> budget, pax |-> pax,
                interests |-> interests,
                value |-> build_itinerary_prompt(destination, days, budget, pax, interests)]
  /\ UNCHANGED <<storeVars, concVars, configVars, pipeVars, loc_details>>
  /\ UNCHANGED <<session_state, form, view, clock, gen, extract_input>>

InitPrompt ==
  /\ file = MissingFile
  /\ ret = NoRet
  /\ saved = <<>>
  /\ ncalls = 0
  /\ ConcIdle
  /\ ConfigDefault
  /\ UiIdle
  /\ PipeIdle

NextPrompt ==
  \E destination \in Destinations, days \in 1..MaxDays, budget \in Budgets,
     pax \in PaxChoices, interests \in SeqsUpTo(InterestChoices, MaxInterests) :
    CallPrompt(destination, days, budget, pax, interests)

SpecPrompt == InitPrompt /\ [][NextPrompt]_vars

(***************************************************************************)
(* Claims about the Prompt Builder.                                        *)
(***************************************************************************)
Contains(s, sub) == \E i \in 1..(Len(s) - Len(sub) + 1) : SubSeq(s, i, i + Len(sub) - 1) = sub

\* the value of a decimal numeral
RECURSIVE NumeralValue(_)
NumeralValue(d) ==
  IF Len(d) = 0 THEN 0
  ELSE 10 * NumeralValue(SubSeq(d, 1, Len(d) - 1)) +
       (CHOOSE v \in 0..9 : DigitChar(v) = d[Len(d)])

\* s holds the numeral of n right before "-day"
ContainsDays(s, n) ==
  \E i \in 1..Len(s), j \in 1..Len(s) :
    /\ i <= j
    /\ \A k \in i..j : s[k] \in Digits
    /\ s[i] # "0"
    /\ i > 1 => s[i - 1] \notin Digits
    /\ NumeralValue(SubSeq(s, i, j)) = n
    /\ SubSeq(s, j + 1, j + 4) = <<"-", "d", "a", "y">>

\* the items one after the other in their order, ", " between two of them
Joined(items) ==
  Concat([k \in 1..(2 * Len(items) - 1) |->
            IF k % 2 = 1 THEN items[(k + 1) \div 2] ELSE P_CommaSpace])

\* C13: build_itinerary_prompt changes no state, and its result contains the
\* destination, the numeral of days followed by "-day", the traveler type and
\* the budget; with no interests it contains "general sightseeing", and with
\* interests it contains them in their order, joined by ", ".
C13_PromptContents ==
  /\ file = MissingFile /\ session_state = [nav_page |-> "home"] /\ call = NoCall
  /\ prompt # NoPrompt =>
       /\ Contains(prompt.value, prompt.destination)
       /\ ContainsDays(prompt.value, prompt.days)
       /\ Contains(prompt.value, prompt.pax)
       /\ Contains(prompt.value, prompt.budget)
       /\ Len(prompt.interests) = 0 => Contains(prompt.value, P_GeneralSightseeing)
       /\ Len(prompt.interests) > 0 =>
            /\ Contains(prompt.value, P_Interests \o Joined(prompt.interests) \o <<".">>)
            /\ ~Contains(prompt.value, P_GeneralSightseeing)

C13_Witness ==
  /\ prompt.days = 12
  /\ Len(prompt.interests) = 2
  /\ prompt.interests[1] # prompt.interests[2]
  /\ prompt.destination = D_Jammu

(***************************************************************************)
(* Claims about the session.                                               *)
(***************************************************************************)
\* the record the Generate action gen stands for stored at time now
SnapshotOf(g, now) ==
  Itinerary(g.form.from_location, g.form.dest, g.form.days, g.form.budget, g.form.pax,
            g.form.interests, now, g.text)

StoredBefore == IF file.kind = "json" THEN json_load(file.content) ELSE <<>>

\* C14: after every UI action the session's latest_itinerary is the parameters
\* and the text of the most recent Generate action and the session's places are
\* the top places fetched for that destination by that action (before the first
\* Generate there is no latest_itinerary); an action that is not a Generate
\* changes neither; and Save appends exactly latest_itinerary to the Trip Store.
C14_SessionSnapshot ==
  [][/\ gen'.invocations = 0 => "latest_itinerary" \notin DOMAIN session_state'
     /\ gen'.invocations > 0 =>
          /\ Get(session_state', "latest_itinerary") = Some(SnapshotOf(gen', clock'))
          /\ Get(session_state', "places") = Some(gen'.top)
          /\ gen'.top_query = session_state'["latest_itinerary"].destination
     /\ clock' = clock =>
          /\ Get(session_state', "latest_itinerary") = Get(session_state, "latest_itinerary")
          /\ Get(session_state', "places") = Get(session_state, "places")
     /\ ncalls' # ncalls =>
          /\ "latest_itinerary" \in DOMAIN session_state
          /\ saved' = Append(saved, session_state["latest_itinerary"])
          /\ file'.kind = "json"
          /\ json_load(file'.content) = Append(StoredBefore, session_state["latest_itinerary"])
    ]_vars

\* the second Generate's itinerary was saved after the form was edited again
C14_Witness ==
  /\ view.page = "plan"
  /\ gen.invocations = 2
  /\ Len(saved) >= 1
  /\ file.kind = "json"
  /\ Stored = saved
  /\ saved[Len(saved)].destination # form.dest
  /\ saved[Len(saved)].generated_at = 2

====
